---- MODULE Spec2Model ----
(***************************************************************************)
(* A state-machine model of the Gemini chat front end (src/src/App.vue).   *)
(* The file holds two components: the multi-turn application (lines 1-386) *)
(* with conversation threads and the typewriter reveal, and the earlier    *)
(* single-turn application (lines 388-654).  Spec is the multi-turn        *)
(* application, SpecSingle the single-turn one.                            *)
(*                                                                         *)
(* Text is a sequence of one-character strings.  The event loop is         *)
(* modelled by one action per event handler or callback run; the code      *)
(* between two awaits runs atomically.                                     *)
(***************************************************************************)
EXTENDS Integers, Sequences, FiniteSets, TLC

VARIABLES
    prompt,                 \* ref prompt
    result,                 \* ref result
    displayedResult,        \* ref displayedResult
    loading,                \* ref loading
    isTyping,               \* ref isTyping
    error,                  \* ref error
    selectedModel,          \* ref selectedModel
    chatHistory,            \* ref chatHistory, newest first
    searchKeyword,          \* ref searchKeyword
    selectedChatId,         \* ref selectedChatId
    currentConversationId,  \* ref currentConversationId
    currentConversation,    \* ref currentConversation
    now,                    \* the last value Date.now() returned
    pending,                \* gateway calls awaiting their response
    timers,                 \* running typewriterEffect intervals, next due first
    prev,                   \* history: the latest accepted submission
    last                    \* history: the event that led to this state

vars == <<prompt, result, displayedResult, loading, isTyping, error,
          selectedModel, chatHistory, searchKeyword, selectedChatId,
          currentConversationId,
          currentConversation, now, pending, timers, prev, last>>

(***************************************************************************)
(* Bounds of the model.                                                    *)
(***************************************************************************)
MaxClock == 3
MaxHistory == 2
MaxTimers == 2

(***************************************************************************)
(* Program constants.                                                      *)
(***************************************************************************)
NULL == -1
NoError == "null"
ValidationMessage == "validation"
GenericMessage == "generic"
DefaultModel == "gemini-2.5-flash"
availableModels == {"gemini-2.5-flash", "gemini-2.5-pro"}

None == [none |-> TRUE]

(***************************************************************************)
(* Inputs: what the user may type and what the gateway may answer.         *)
(***************************************************************************)
Prompts == {<<>>, <<"a">>, <<" ", "A">>}
PromptsSingle == Prompts \cup {<<" ">>}
Responses == {<<"B">>, <<"c">>}
Keywords == {<<>>, <<" ">>, <<" ", "a">>, <<"b">>}

(***************************************************************************)
(* String.prototype.trim                                                   *)
(***************************************************************************)
IsSpace(c) == c = " "

RECURSIVE TrimStart(_)
TrimStart(s) ==
    IF s = <<>> THEN <<>>
    ELSE IF IsSpace(Head(s)) THEN TrimStart(Tail(s)) ELSE s

RECURSIVE TrimEnd(_)
TrimEnd(s) ==
    IF s = <<>> THEN <<>>
    ELSE IF IsSpace(s[Len(s)]) THEN TrimEnd(SubSeq(s, 1, Len(s) - 1)) ELSE s

Trim(s) == TrimEnd(TrimStart(s))

(***************************************************************************)
(* Step 2 of callGeminiAPI: !prompt.value.trim()                           *)
(***************************************************************************)
PromptIsEmpty_NoTrim(p) == p = <<>>

PromptIsEmpty(p) == Trim(p) = <<>>

(***************************************************************************)
(* Array helpers: findIndex / find, filter, stable sort by timestamp,      *)
(* splice(index, 1).                                                       *)
(***************************************************************************)
FindIndex(hist, chatId) ==
    IF \E k \in 1..Len(hist) : hist[k].id = chatId
    THEN CHOOSE k \in 1..Len(hist) :
            /\ hist[k].id = chatId
            /\ \A m \in 1..(k - 1) : hist[m].id # chatId
    ELSE 0

FilterByConversation(hist, cid) ==
    LET Same(c) == c.conversationId = cid IN SelectSeq(hist, Same)

RECURSIVE InsertByTimestamp(_, _)
InsertByTimestamp(sorted, c) ==
    IF sorted = <<>> THEN <<c>>
    ELSE IF sorted[Len(sorted)].timestamp <= c.timestamp
         THEN Append(sorted, c)
         ELSE Append(InsertByTimestamp(SubSeq(sorted, 1, Len(sorted) - 1), c),
                     sorted[Len(sorted)])

RECURSIVE SortByTimestamp(_)
SortByTimestamp(s) ==
    IF s = <<>> THEN <<>>
    ELSE InsertByTimestamp(SortByTimestamp(SubSeq(s, 1, Len(s) - 1)), s[Len(s)])

Splice_Truncates(s, k) == SubSeq(s, 1, k - 1)

Splice(s, k) == SubSeq(s, 1, k - 1) \o SubSeq(s, k + 1, Len(s))

(***************************************************************************)
(* Step 4 of callGeminiAPI: the prior turns sent with the call.            *)
(***************************************************************************)
BuildContext(conv) ==
    [k \in 1..(2 * Len(conv)) |->
        IF k % 2 = 1
        THEN [role |-> "user", text |-> conv[(k + 1) \div 2].prompt]
        ELSE [role |-> "model", text |-> conv[k \div 2].response]]

(***************************************************************************)
(* Date.now(): a reading never goes back; two readings may fall in the     *)
(* same millisecond.                                                       *)
(***************************************************************************)
ClockReadings == {t \in now..(now + 1) : t <= MaxClock}

(***************************************************************************)
(* A reading that leaves `reserve` later readings room below MaxClock.     *)
(* Every interval remembers, in floor, the last reading made before it was *)
(* started or last ran; its next run is a period (30 ms) later, so a       *)
(* reading made in that run is strictly greater.  So is a reading made     *)
(* after a single-turn gateway call, against those made before the call.   *)
(***************************************************************************)
ReadingsLeaving(reserve) == {t \in ClockReadings : t + reserve <= MaxClock}

ReadingsAfter(floor, reserve) == {t \in ReadingsLeaving(reserve) : t > floor}

(***************************************************************************)
(* Initial state: the refs as constructed.                                 *)
(***************************************************************************)
Init ==
    /\ prompt = <<>>
    /\ result = <<>>
    /\ displayedResult = <<>>
    /\ loading = FALSE
    /\ isTyping = FALSE
    /\ error = NoError
    /\ selectedModel = DefaultModel
    /\ chatHistory = <<>>
    /\ searchKeyword = <<>>
    /\ selectedChatId = NULL
    /\ currentConversationId = NULL
    /\ currentConversation = <<>>
    /\ now = 0
    /\ pending = <<>>
    /\ timers = <<>>
    /\ prev = None
    /\ last = [op |-> "init"]

(***************************************************************************)
(* The bounds: the running intervals and calls, and the Exchanges that     *)
(* chatHistory and currentConversation may come to hold.                   *)
(***************************************************************************)
IsCallTimer(tm) == tm.owner = "call"

InFlight == Len(pending) + Len(timers)

Recording == Len(pending) + Len(SelectSeq(timers, IsCallTimer))

Room ==
    /\ now + Recording + 1 <= MaxClock
    /\ InFlight < MaxTimers
    /\ Len(chatHistory) + Recording < MaxHistory
    /\ Len(currentConversation) + Recording < MaxHistory

(***************************************************************************)
(* History bookkeeping.  A pending call keeps, in pre, the store as it was *)
(* just before its submission; any store mutation that is not part of     *)
(* that submission drops the snapshot.                                     *)
(***************************************************************************)
Disturbed(calls) ==
    [i \in DOMAIN calls |-> [calls[i] EXCEPT !.pre = None]]

(***************************************************************************)
(* Template gating (multi-turn): the textarea and the model select are     *)
(* disabled by loading || isTyping, the submit button also by an empty     *)
(* trimmed prompt.                                                         *)
(***************************************************************************)
InputEnabled == ~(loading \/ isTyping)

SubmitEnabled_NoLoading == ~(isTyping \/ Trim(prompt) = <<>>)

SubmitEnabled == ~(loading \/ isTyping \/ Trim(prompt) = <<>>)

\* v-model="prompt": the user edits the textarea.
TypePrompt(p) ==
    /\ InputEnabled
    /\ p # prompt
    /\ prompt' = p
    /\ last' = [op |-> "type"]
    /\ UNCHANGED searchKeyword
    /\ UNCHANGED <<result, displayedResult, loading, isTyping, error,
                   selectedModel, chatHistory, selectedChatId,
                   currentConversationId, currentConversation, now, pending,
                   timers, prev>>

\* v-model="selectedModel": the user picks another model.
ChangeModel(m) ==
    /\ InputEnabled
    /\ m # selectedModel
    /\ selectedModel' = m
    /\ last' = [op |-> "model"]
    /\ UNCHANGED searchKeyword
    /\ UNCHANGED <<prompt, result, displayedResult, loading, isTyping, error,
                   chatHistory, selectedChatId, currentConversationId,
                   currentConversation, now, pending, timers, prev>>

(***************************************************************************)
(* callGeminiAPI up to its first await: reset, validation, conversation id,*)
(* context, and the gateway call (chat.sendMessage).                       *)
(***************************************************************************)
CallGeminiAPI ==
    IF PromptIsEmpty(prompt)
    THEN /\ result' = <<>>
         /\ displayedResult' = <<>>
         /\ error' = ValidationMessage
         /\ loading' = FALSE
         /\ last' = [op |-> "invalid", prompt |-> prompt,
                     hist |-> chatHistory, calls |-> Len(pending)]
         /\ UNCHANGED searchKeyword
         /\ UNCHANGED <<prompt, isTyping, selectedModel, chatHistory,
                        selectedChatId, currentConversationId,
                        currentConversation, now, pending, timers, prev>>
    ELSE LET fresh == currentConversationId = NULL IN
         \E t \in (IF fresh THEN ReadingsLeaving(Recording + 1) ELSE {now}) :
            LET cid == IF fresh THEN t ELSE currentConversationId
                req == [prompt |-> prompt,
                        model |-> selectedModel,
                        history |-> BuildContext(currentConversation),
                        cid |-> cid]
                call == [currentPrompt |-> prompt,
                         req |-> req,
                         fresh |-> fresh,
                         pre |-> [hist |-> chatHistory,
                                  cid |-> currentConversationId,
                                  conv |-> currentConversation]]
            IN /\ loading' = TRUE
               /\ result' = <<>>
               /\ displayedResult' = <<>>
               /\ error' = NoError
               /\ currentConversationId' = cid
               /\ now' = t
               /\ pending' = Append(pending, call)
               /\ prev' = [cid |-> cid, prompt |-> prompt, fresh |-> fresh,
                           answered |-> FALSE, response |-> <<>>]
               /\ last' = [op |-> "submit", req |-> req, prev |-> prev]
               /\ UNCHANGED searchKeyword
               /\ UNCHANGED <<prompt, isTyping, selectedModel, chatHistory,
                              selectedChatId, currentConversation, timers>>

\* @click="callGeminiAPI" on the submit button.
Submit ==
    /\ SubmitEnabled
    /\ Room
    /\ CallGeminiAPI

(***************************************************************************)
(* typewriterEffect(text): the promise executor.  It raises isTyping,      *)
(* empties displayedResult and starts an interval of its own.  All         *)
(* intervals have the same period (speed = 30), so they come due in turn:  *)
(* a new interval is due after every running one.                          *)
(***************************************************************************)
TypewriterEffect(tm) ==
    /\ isTyping' = TRUE
    /\ displayedResult' = <<>>
    /\ timers' = Append(timers, tm)

(***************************************************************************)
(* The gateway answers r: steps 6 and 7 of callGeminiAPI.                  *)
(***************************************************************************)
GatewayResolve(i, r) ==
    /\ i \in DOMAIN pending
    /\ result' = r
    /\ loading' = FALSE
    /\ TypewriterEffect([owner |-> "call", text |-> r, index |-> 0,
                         floor |-> now,
                         currentPrompt |-> pending[i].currentPrompt,
                         req |-> pending[i].req,
                         fresh |-> pending[i].fresh])
    /\ pending' = Splice(pending, i)
    /\ prev' = IF prev # None
               THEN [prev EXCEPT !.answered = TRUE, !.response = r]
               ELSE prev
    /\ last' = [op |-> "resolve"]
    /\ UNCHANGED searchKeyword
    /\ UNCHANGED <<prompt, error, selectedModel, chatHistory, selectedChatId,
                   currentConversationId, currentConversation, now>>

(***************************************************************************)
(* The gateway call throws: step 10, the catch block.                      *)
(***************************************************************************)
GatewayFail_KeepsLoading(i) ==
    /\ i \in DOMAIN pending
    /\ error' = GenericMessage
    /\ isTyping' = FALSE
    /\ pending' = Splice(pending, i)
    /\ prev' = None
    /\ last' = [op |-> "fail", pre |-> pending[i].pre]
    /\ UNCHANGED searchKeyword
    /\ UNCHANGED <<prompt, result, displayedResult, loading, selectedModel,
                   chatHistory, selectedChatId, currentConversationId,
                   currentConversation, now, timers>>

GatewayFail(i) ==
    /\ i \in DOMAIN pending
    /\ error' = GenericMessage
    /\ loading' = FALSE
    /\ isTyping' = FALSE
    /\ pending' = Splice(pending, i)
    /\ prev' = None
    /\ last' = [op |-> "fail", pre |-> pending[i].pre]
    /\ UNCHANGED searchKeyword
    /\ UNCHANGED <<prompt, result, displayedResult, selectedModel,
                   chatHistory, selectedChatId, currentConversationId,
                   currentConversation, now, timers>>

(***************************************************************************)
(* One run of the callback of the interval that is due, with characters    *)
(* left: it emits one and the interval comes due again after the others.   *)
(***************************************************************************)
TimerTick_Stalls ==
    /\ timers # <<>>
    /\ Head(timers).index < Len(Head(timers).text)
    /\ timers' = Append(Tail(timers), Head(timers))
    /\ last' = [op |-> "tick"]
    /\ UNCHANGED searchKeyword
    /\ UNCHANGED <<prompt, result, displayedResult, loading, isTyping, error,
                   selectedModel, chatHistory, selectedChatId,
                   currentConversationId, currentConversation, now, pending,
                   prev>>

TimerTick ==
    /\ timers # <<>>
    /\ LET tm == Head(timers) IN
       /\ tm.index < Len(tm.text)
       /\ displayedResult' = Append(displayedResult, tm.text[tm.index + 1])
       /\ timers' = Append(Tail(timers),
                           [tm EXCEPT !.index = @ + 1, !.floor = now])
    /\ last' = [op |-> "tick"]
    /\ UNCHANGED searchKeyword
    /\ UNCHANGED <<prompt, result, loading, isTyping, error, selectedModel,
                   chatHistory, selectedChatId, currentConversationId,
                   currentConversation, now, pending, prev>>

(***************************************************************************)
(* Step 8 of callGeminiAPI: the ChatRecord built after the reveal.         *)
(***************************************************************************)
ChatRecord_PromptAtRecord(tm, t) ==
    [id |-> t,
     conversationId |-> currentConversationId,
     prompt |-> prompt,
     response |-> tm.text,
     model |-> selectedModel,
     timestamp |-> t]

ChatRecord_ConversationTimestamp(tm, t) ==
    [id |-> t,
     conversationId |-> currentConversationId,
     prompt |-> tm.currentPrompt,
     response |-> tm.text,
     model |-> selectedModel,
     timestamp |-> tm.req.cid]

ChatRecord(tm, t) ==
    [id |-> t,
     conversationId |-> currentConversationId,
     prompt |-> tm.currentPrompt,
     response |-> tm.text,
     model |-> selectedModel,
     timestamp |-> t]

(***************************************************************************)
(* The run of the callback of the interval that is due, with no character  *)
(* left: clearInterval, isTyping = false, resolve().  The awaiting         *)
(* continuation runs in the same turn of the event loop: for callGeminiAPI *)
(* steps 8 and 9, for selectChatFromHistory nothing.                       *)
(***************************************************************************)
TimerFinish ==
    /\ timers # <<>>
    /\ Head(timers).index >= Len(Head(timers).text)
    /\ timers' = Tail(timers)
    /\ isTyping' = FALSE
    /\ LET tm == Head(timers) IN
       IF tm.owner = "call"
       THEN \E t \in ReadingsAfter(tm.floor, Recording - 1) :
               LET chatRecord == ChatRecord(tm, t) IN
               /\ now' = t
               /\ currentConversation' = Append(currentConversation, chatRecord)
               /\ chatHistory' = <<chatRecord>> \o chatHistory
               /\ prompt' = <<>>
               /\ pending' = Disturbed(pending)
               /\ last' = [op |-> "record", req |-> tm.req,
                           fresh |-> tm.fresh,
                           response |-> tm.text, hist |-> chatHistory,
                           conv |-> currentConversation]
       ELSE /\ last' = [op |-> "finish"]
            /\ UNCHANGED <<prompt, chatHistory, currentConversation, now,
                           pending>>
    /\ UNCHANGED searchKeyword
    /\ UNCHANGED <<result, displayedResult, loading, error, selectedModel,
                   selectedChatId, currentConversationId, prev>>

(***************************************************************************)
(* clearCurrentConversation: what it assigns.                              *)
(***************************************************************************)
ClearAssignments_KeepsView ==
    /\ prompt' = <<>>
    /\ result' = <<>>
    /\ displayedResult' = <<>>
    /\ error' = NoError
    /\ selectedChatId' = NULL
    /\ currentConversationId' = NULL
    /\ UNCHANGED currentConversation

ClearAssignments ==
    /\ prompt' = <<>>
    /\ result' = <<>>
    /\ displayedResult' = <<>>
    /\ error' = NoError
    /\ selectedChatId' = NULL
    /\ currentConversationId' = NULL
    /\ currentConversation' = <<>>

\* @click="clearCurrentConversation" on the new-chat button.
ClearCurrentConversation ==
    /\ ClearAssignments
    /\ pending' = Disturbed(pending)
    /\ prev' = None
    /\ last' = [op |-> "clear",
                active |-> currentConversation # <<>> /\ result # <<>>]
    /\ UNCHANGED searchKeyword
    /\ UNCHANGED <<loading, isTyping, selectedModel, chatHistory, now, timers>>

(***************************************************************************)
(* selectChatFromHistory(chatId) up to its await.                          *)
(***************************************************************************)
ConversationOf_Unsorted(hist, cid) ==
    FilterByConversation(hist, cid)

ConversationOf(hist, cid) ==
    SortByTimestamp(FilterByConversation(hist, cid))

SelectChatFromHistory(chatId) ==
    LET k == FindIndex(chatHistory, chatId) IN
    IF k = 0
    THEN /\ last' = [op |-> "select", found |-> FALSE, id |-> chatId]
         /\ UNCHANGED searchKeyword
         /\ UNCHANGED <<prompt, result, displayedResult, loading, isTyping,
                        error, selectedModel, chatHistory, selectedChatId,
                        currentConversationId, currentConversation, now,
                        pending, timers, prev>>
    ELSE LET chat == chatHistory[k] IN
         /\ InFlight < MaxTimers
         /\ selectedChatId' = chatId
         /\ result' = chat.response
         /\ prompt' = <<>>
         /\ error' = NoError
         /\ currentConversationId' = chat.conversationId
         /\ currentConversation' =
                ConversationOf(chatHistory, chat.conversationId)
         /\ TypewriterEffect([owner |-> "select", text |-> chat.response,
                              index |-> 0, floor |-> now])
         /\ pending' = Disturbed(pending)
         /\ prev' = None
         /\ last' = [op |-> "select", found |-> TRUE, id |-> chatId]
         /\ UNCHANGED searchKeyword
         /\ UNCHANGED <<loading, selectedModel, chatHistory, now>>

(***************************************************************************)
(* deleteChatFromHistory(chatId).                                          *)
(***************************************************************************)
DeletedIsSelected_OfActive(chatId) ==
    \/ selectedChatId = chatId
    \/ \E k \in 1..Len(currentConversation) :
          currentConversation[k].id = chatId

\* line 126: selectedChatId.value === chatId
DeletedIsSelected(chatId) == selectedChatId = chatId

DeleteChatFromHistory(chatId) ==
    LET index == FindIndex(chatHistory, chatId) IN
    IF index = 0
    THEN /\ last' = [op |-> "delete", found |-> FALSE, id |-> chatId]
         /\ UNCHANGED searchKeyword
         /\ UNCHANGED <<prompt, result, displayedResult, loading, isTyping,
                        error, selectedModel, chatHistory, selectedChatId,
                        currentConversationId, currentConversation, now,
                        pending, timers, prev>>
    ELSE /\ chatHistory' = Splice(chatHistory, index)
         /\ IF DeletedIsSelected(chatId)
            THEN ClearAssignments
            ELSE UNCHANGED <<prompt, result, displayedResult, error,
                             selectedChatId, currentConversationId,
                             currentConversation>>
         /\ pending' = Disturbed(pending)
         /\ prev' = None
         /\ last' = [op |-> "delete", found |-> TRUE, id |-> chatId,
                     onlyOfActive |->
                        /\ currentConversationId # NULL
                        /\ chatHistory[index].conversationId
                              = currentConversationId
                        /\ Len(FilterByConversation(chatHistory,
                                  currentConversationId)) = 1]
         /\ UNCHANGED searchKeyword
         /\ UNCHANGED <<loading, isTyping, selectedModel, now, timers>>

(***************************************************************************)
(* String.prototype.toLowerCase and String.prototype.includes, over the    *)
(* characters the inputs are made of.                                      *)
(***************************************************************************)
LowerOf(c) == CASE c = "A" -> "a" [] c = "B" -> "b" [] OTHER -> c

ToLowerCase(s) == [k \in 1..Len(s) |-> LowerOf(s[k])]

Includes(text, part) ==
    \E k \in 0..(Len(text) - Len(part)) :
        SubSeq(text, k + 1, k + Len(part)) = part

(***************************************************************************)
(* The computed filteredChatHistory of both components.                    *)
(***************************************************************************)
filteredChatHistory_CaseSensitive ==
    IF Trim(searchKeyword) = <<>> THEN chatHistory
    ELSE LET Keep(chat) ==
                 \/ Includes(chat.prompt, searchKeyword)
                 \/ Includes(chat.response, searchKeyword)
         IN  SelectSeq(chatHistory, Keep)

filteredChatHistory ==
    IF Trim(searchKeyword) = <<>> THEN chatHistory
    ELSE LET Keep(chat) ==
                 \/ Includes(ToLowerCase(chat.prompt),
                             ToLowerCase(searchKeyword))
                 \/ Includes(ToLowerCase(chat.response),
                             ToLowerCase(searchKeyword))
         IN  SelectSeq(chatHistory, Keep)

(***************************************************************************)
(* The Exchanges the sidebar lists, which are the ones select and delete   *)
(* can be clicked on.  The multi-turn model leaves the search field empty: *)
(* its list is all of chatHistory.                                         *)
(***************************************************************************)
ListedIds == {filteredChatHistory[k].id : k \in 1..Len(filteredChatHistory)}

(***************************************************************************)
(* deleteChatFromHistory is run with the listed ids and, for its contract  *)
(* on an id that is not in chatHistory, with an id no Exchange has.        *)
(***************************************************************************)
UnlistedId == MaxClock + 1

DeleteIds == ListedIds \cup {UnlistedId}

Next ==
    \/ \E p \in Prompts : TypePrompt(p)
    \/ \E m \in availableModels : ChangeModel(m)
    \/ Submit
    \/ \E i \in DOMAIN pending : \E r \in Responses : GatewayResolve(i, r)
    \/ \E i \in DOMAIN pending : GatewayFail(i)
    \/ TimerTick
    \/ TimerFinish
    \/ ClearCurrentConversation
    \/ \E chatId \in ListedIds : SelectChatFromHistory(chatId)
    \/ \E chatId \in DeleteIds : DeleteChatFromHistory(chatId)

Spec == Init /\ [][Next]_vars

(***************************************************************************)
(* The multi-turn component with a gateway that answers or fails every     *)
(* call and intervals that keep running: the event loop runs a callback    *)
(* that is due.  The user's events are under no such condition.  One       *)
(* prompt, the default model and answers of one and of two characters are  *)
(* enough here.                                                            *)
(***************************************************************************)
LiveResponses == {<<"B">>, <<"B", "c">>}

GatewayAnswers ==
    \E i \in DOMAIN pending :
        \/ \E r \in LiveResponses : GatewayResolve(i, r)
        \/ GatewayFail(i)

NextLive ==
    \/ TypePrompt(<<"a">>)
    \/ Submit
    \/ \E i \in DOMAIN pending : \E r \in LiveResponses : GatewayResolve(i, r)
    \/ \E i \in DOMAIN pending : GatewayFail(i)
    \/ TimerTick
    \/ TimerFinish
    \/ ClearCurrentConversation
    \/ \E chatId \in ListedIds : SelectChatFromHistory(chatId)
    \/ \E chatId \in ListedIds : DeleteChatFromHistory(chatId)

(***************************************************************************)
(* The multi-turn component with a user who submits and clicks history     *)
(* entries but neither the new-chat nor a delete button: the reveals are   *)
(* disturbed by one another only.                                          *)
(***************************************************************************)
NextReveal ==
    \/ \E p \in Prompts : TypePrompt(p)
    \/ Submit
    \/ \E i \in DOMAIN pending : \E r \in Responses : GatewayResolve(i, r)
    \/ \E i \in DOMAIN pending : GatewayFail(i)
    \/ TimerTick
    \/ TimerFinish
    \/ \E chatId \in ListedIds : SelectChatFromHistory(chatId)

SpecReveal == Init /\ [][NextReveal]_vars

SpecLive ==
    /\ Init
    /\ [][NextLive]_vars
    /\ WF_vars(GatewayAnswers)
    /\ WF_vars(TimerTick)
    /\ WF_vars(TimerFinish)

(***************************************************************************)
(* The single-turn application (src/src/App.vue, lines 388-654).  It has   *)
(* no conversation threads and no reveal; its submit button is disabled by *)
(* loading alone, and its textarea and model select are never disabled.    *)
(***************************************************************************)
RoomSingle ==
    /\ now + Len(pending) + 1 <= MaxClock
    /\ Len(chatHistory) + Len(pending) < MaxHistory

SingleTypePrompt(p) ==
    /\ p # prompt
    /\ prompt' = p
    /\ last' = [op |-> "type"]
    /\ UNCHANGED searchKeyword
    /\ UNCHANGED <<result, displayedResult, loading, isTyping, error,
                   selectedModel, chatHistory, selectedChatId,
                   currentConversationId, currentConversation, now, pending,
                   timers, prev>>

(***************************************************************************)
(* The search field (v-model searchKeyword).                               *)
(***************************************************************************)
SingleTypeKeyword(k) ==
    /\ k # searchKeyword
    /\ searchKeyword' = k
    /\ last' = [op |-> "search"]
    /\ UNCHANGED <<prompt, result, displayedResult, loading, isTyping, error,
                   selectedModel, chatHistory, selectedChatId,
                   currentConversationId, currentConversation, now, pending,
                   timers, prev>>

SingleChangeModel(m) ==
    /\ m # selectedModel
    /\ selectedModel' = m
    /\ last' = [op |-> "model"]
    /\ UNCHANGED searchKeyword
    /\ UNCHANGED <<prompt, result, displayedResult, loading, isTyping, error,
                   chatHistory, selectedChatId, currentConversationId,
                   currentConversation, now, pending, timers, prev>>

\* callGeminiAPI up to its await (model.generateContent).
SingleCallGeminiAPI ==
    /\ result' = <<>>
    /\ last' = [op |-> "call", prompt |-> prompt, hist |-> chatHistory,
                calls |-> Len(pending)]
    /\ IF PromptIsEmpty(prompt)
       THEN /\ error' = ValidationMessage
            /\ loading' = FALSE
            /\ UNCHANGED pending
       ELSE /\ RoomSingle
            /\ error' = NoError
            /\ loading' = TRUE
            /\ pending' = Append(pending,
                                 [currentPrompt |-> prompt,
                                  floor |-> now,
                                  req |-> [prompt |-> prompt,
                                           model |-> selectedModel],
                                  pre |-> [hist |-> chatHistory]])
    /\ UNCHANGED searchKeyword
    /\ UNCHANGED <<prompt, displayedResult, isTyping, selectedModel,
                   chatHistory, selectedChatId, currentConversationId,
                   currentConversation, now, timers, prev>>

\* @click="callGeminiAPI", :disabled="loading".
SingleSubmit ==
    /\ ~loading
    /\ SingleCallGeminiAPI

\* The gateway answers r: steps 4 to 6, then the finally block.
SingleGatewayResolve(i, r) ==
    /\ i \in DOMAIN pending
    /\ \E t \in ReadingsAfter(pending[i].floor, Len(pending) - 1) :
          LET chatRecord == [id |-> t,
                             prompt |-> pending[i].currentPrompt,
                             response |-> r,
                             model |-> selectedModel,
                             timestamp |-> t]
          IN /\ now' = t
             /\ chatHistory' = <<chatRecord>> \o chatHistory
    /\ result' = r
    /\ prompt' = <<>>
    /\ loading' = FALSE
    /\ pending' = Disturbed(Splice(pending, i))
    /\ last' = [op |-> "record", req |-> pending[i].req, response |-> r,
                hist |-> chatHistory]
    /\ UNCHANGED searchKeyword
    /\ UNCHANGED <<displayedResult, isTyping, error, selectedModel,
                   selectedChatId, currentConversationId,
                   currentConversation, timers, prev>>

\* The gateway call throws: the catch block, then the finally block.
SingleGatewayFail(i) ==
    /\ i \in DOMAIN pending
    /\ error' = GenericMessage
    /\ loading' = FALSE
    /\ pending' = Splice(pending, i)
    /\ last' = [op |-> "fail", pre |-> pending[i].pre]
    /\ UNCHANGED searchKeyword
    /\ UNCHANGED <<prompt, result, displayedResult, isTyping, selectedModel,
                   chatHistory, selectedChatId, currentConversationId,
                   currentConversation, now, timers, prev>>

SingleClearAssignments ==
    /\ prompt' = <<>>
    /\ result' = <<>>
    /\ error' = NoError
    /\ selectedChatId' = NULL

SingleClearCurrentConversation ==
    /\ SingleClearAssignments
    /\ last' = [op |-> "clear"]
    /\ UNCHANGED searchKeyword
    /\ UNCHANGED <<displayedResult, loading, isTyping, selectedModel,
                   chatHistory, currentConversationId, currentConversation,
                   now, pending, timers, prev>>

SingleSelectChatFromHistory(chatId) ==
    LET k == FindIndex(chatHistory, chatId) IN
    /\ last' = [op |-> "select", found |-> k # 0, id |-> chatId]
    /\ IF k = 0
       THEN UNCHANGED <<prompt, result, error, selectedChatId>>
       ELSE /\ selectedChatId' = chatId
            /\ result' = chatHistory[k].response
            /\ prompt' = <<>>
            /\ error' = NoError
    /\ UNCHANGED searchKeyword
    /\ UNCHANGED <<displayedResult, loading, isTyping, selectedModel,
                   chatHistory, currentConversationId, currentConversation,
                   now, pending, timers, prev>>

SingleDeleteChatFromHistory(chatId) ==
    LET index == FindIndex(chatHistory, chatId) IN
    /\ last' = [op |-> "delete", found |-> index # 0, id |-> chatId]
    /\ IF index = 0
       THEN UNCHANGED <<prompt, result, error, selectedChatId, chatHistory,
                        pending>>
       ELSE /\ chatHistory' = Splice(chatHistory, index)
            /\ pending' = Disturbed(pending)
            /\ IF selectedChatId = chatId
               THEN SingleClearAssignments
               ELSE UNCHANGED <<prompt, result, error, selectedChatId>>
    /\ UNCHANGED searchKeyword
    /\ UNCHANGED <<displayedResult, loading, isTyping, selectedModel,
                   currentConversationId, currentConversation, now, timers,
                   prev>>

NextSingle ==
    \/ \E p \in PromptsSingle : SingleTypePrompt(p)
    \/ \E m \in availableModels : SingleChangeModel(m)
    \/ \E k \in Keywords : SingleTypeKeyword(k)
    \/ SingleSubmit
    \/ \E i \in DOMAIN pending : \E r \in Responses :
          SingleGatewayResolve(i, r)
    \/ \E i \in DOMAIN pending : SingleGatewayFail(i)
    \/ SingleClearCurrentConversation
    \/ \E chatId \in ListedIds : SingleSelectChatFromHistory(chatId)
    \/ \E chatId \in DeleteIds : SingleDeleteChatFromHistory(chatId)

SpecSingle == Init /\ [][NextSingle]_vars

(***************************************************************************)
(* Helpers of the properties.                                              *)
(***************************************************************************)
Occurrences(seq, r) == Cardinality({k \in 1..Len(seq) : seq[k] = r})

Elements(seq) == {seq[k] : k \in 1..Len(seq)}

Revealing == \E k \in 1..Len(timers) : timers[k].index < Len(timers[k].text)

(***************************************************************************)
(* C1: a submission with a prompt that is non-empty after trimming, whose  *)
(* gateway call succeeds, adds exactly one Exchange to chatHistory: the    *)
(* history grows by one, the new Exchange is at the front, the others are  *)
(* kept, its prompt is the prompt that was submitted and its response is   *)
(* the text the gateway returned.                                          *)
(***************************************************************************)
C1_SuccessAddsOneExchange ==
    last.op = "record" =>
        /\ ~PromptIsEmpty(last.req.prompt)
        /\ Len(chatHistory) = Len(last.hist) + 1
        /\ Tail(chatHistory) = last.hist
        /\ chatHistory[1].prompt = last.req.prompt
        /\ chatHistory[1].response = last.response

\* A second Exchange is recorded while the prompt field holds other text.
C1_Witness ==
    /\ last.op = "record"
    /\ Len(chatHistory) = 2
    /\ chatHistory[1].prompt = <<" ", "A">>
    /\ chatHistory[2].prompt = <<"a">>

(***************************************************************************)
(* C2: callGeminiAPI invoked with an empty or whitespace-only prompt       *)
(* issues no gateway call, leaves chatHistory unchanged, sets error to the *)
(* validation message and ends with loading = false.                       *)
(***************************************************************************)
C2_EmptyPromptRejected ==
    (last.op = "call" /\ Trim(last.prompt) = <<>>) =>
        /\ Len(pending) = last.calls
        /\ chatHistory = last.hist
        /\ error = ValidationMessage
        /\ loading = FALSE

\* A whitespace-only prompt was submitted with an Exchange in the history.
C2_Witness ==
    /\ last.op = "call"
    /\ last.prompt = <<" ">>
    /\ chatHistory # <<>>

(***************************************************************************)
(* C3: when the gateway call of a submission fails, chatHistory is what it *)
(* was before the submission, error is the generic message and loading is  *)
(* false.                                                                  *)
(***************************************************************************)
C3_FailureKeepsHistory ==
    last.op = "fail" =>
        /\ error = GenericMessage
        /\ loading = FALSE
        /\ (last.pre # None => chatHistory = last.pre.hist)

\* A call fails with an Exchange in the history and nothing in between.
C3_Witness ==
    /\ last.op = "fail"
    /\ last.pre # None
    /\ chatHistory # <<>>

(***************************************************************************)
(* C4: a failed submission mutates nothing of the conversation store:      *)
(* chatHistory, currentConversationId and currentConversation are what     *)
(* they were just before the submission.                                   *)
(***************************************************************************)
C4_FailureMutatesNothing ==
    (last.op = "fail" /\ last.pre # None) =>
        /\ chatHistory = last.pre.hist
        /\ currentConversationId = last.pre.cid
        /\ currentConversation = last.pre.conv

(***************************************************************************)
(* C5: deleting the only Exchange of the active conversation clears the    *)
(* active pointer and the conversation view, and the Exchange is no longer *)
(* in chatHistory.                                                         *)
(***************************************************************************)
C5_DeleteOnlyExchangeClears ==
    (last.op = "delete" /\ last.found /\ last.onlyOfActive) =>
        /\ currentConversationId = NULL
        /\ currentConversation = <<>>
        /\ \A k \in 1..Len(chatHistory) : chatHistory[k].id # last.id

(***************************************************************************)
(* C6: right after selectChatFromHistory(id) for a listed id,              *)
(* currentConversationId is the conversationId of that Exchange and        *)
(* currentConversation holds all and only the Exchanges of chatHistory     *)
(* with that conversationId, by ascending timestamp; the context built     *)
(* from it has one user/model pair per such Exchange, in that order.       *)
(***************************************************************************)
C6_SelectLoadsConversation ==
    (last.op = "select" /\ last.found) =>
        LET chat == chatHistory[FindIndex(chatHistory, last.id)]
            ctx == BuildContext(currentConversation)
        IN /\ currentConversationId = chat.conversationId
           /\ \A r \in Elements(chatHistory) \cup Elements(currentConversation) :
                 Occurrences(currentConversation, r) =
                    IF r.conversationId = chat.conversationId
                    THEN Occurrences(chatHistory, r) ELSE 0
           /\ \A k \in 1..(Len(currentConversation) - 1) :
                 currentConversation[k].timestamp
                    <= currentConversation[k + 1].timestamp
           /\ Len(ctx) = 2 * Len(currentConversation)
           /\ \A k \in 1..Len(currentConversation) :
                 /\ ctx[2 * k - 1] =
                       [role |-> "user", text |-> currentConversation[k].prompt]
                 /\ ctx[2 * k] =
                       [role |-> "model",
                        text |-> currentConversation[k].response]

\* A conversation of two Exchanges recorded at different times is selected.
C6_Witness ==
    /\ last.op = "select"
    /\ last.found
    /\ Len(currentConversation) = 2
    /\ currentConversation[1].timestamp < currentConversation[2].timestamp
    /\ Len(chatHistory) = 2

(***************************************************************************)
(* C7: the context sent with a gateway call is the sequence of user/model  *)
(* pairs of currentConversation, of even length; and when a submission     *)
(* that opened a conversation has been answered, the next submission in    *)
(* that conversation (no select, clear or delete in between) sends         *)
(* [(user, first prompt), (model, first response)].                        *)
(***************************************************************************)
C7_ContextIsPriorTurns ==
    last.op = "submit" =>
        /\ Len(last.req.history) % 2 = 0
        /\ last.req.history = BuildContext(currentConversation)
        /\ ( /\ last.prev # None
             /\ last.prev.fresh
             /\ last.prev.answered
             /\ last.prev.cid = last.req.cid )
           => last.req.history =
                 << [role |-> "user", text |-> last.prev.prompt],
                    [role |-> "model", text |-> last.prev.response] >>

(***************************************************************************)
(* C8: at most one gateway call is outstanding at any time.                *)
(***************************************************************************)
C8_SingleFlight == Len(pending) <= 1

\* A call is outstanding while the prompt field still holds a prompt.
C8_Witness ==
    /\ Len(pending) = 1
    /\ ~PromptIsEmpty(prompt)
    /\ chatHistory # <<>>

(***************************************************************************)
(* C9: whenever a gateway call is outstanding or a reveal has characters   *)
(* left to emit, the submit gate loading || isTyping is true.              *)
(***************************************************************************)
C9_GateClosedWhileBusy ==
    (pending # <<>> \/ Revealing) => (loading \/ isTyping)

(***************************************************************************)
(* C10: the model recorded in an Exchange is the model that was passed to  *)
(* the gateway call that produced its response.                            *)
(***************************************************************************)
C10_RecordedModelIsCalledModel ==
    last.op = "record" => chatHistory[1].model = last.req.model
(***************************************************************************)
(* C11: with an empty or whitespace-only keyword filteredChatHistory is    *)
(* chatHistory itself, in its order; otherwise it holds exactly the        *)
(* Exchanges whose prompt or response contains the keyword, letter case    *)
(* ignored, in the order chatHistory has them.                             *)
(***************************************************************************)
SameLetters(a, b) ==
    /\ Len(a) = Len(b)
    /\ \A k \in 1..Len(a) : LowerOf(a[k]) = LowerOf(b[k])

ContainsIgnoringCase(text, part) ==
    \E k \in 1..(Len(text) - Len(part) + 1) :
        SameLetters(SubSeq(text, k, k + Len(part) - 1), part)

Matching ==
    {k \in 1..Len(chatHistory) :
        \/ ContainsIgnoringCase(chatHistory[k].prompt, searchKeyword)
        \/ ContainsIgnoringCase(chatHistory[k].response, searchKeyword)}

C11_FilterIsKeywordMatch ==
    IF \A k \in 1..Len(searchKeyword) : searchKeyword[k] = " "
    THEN filteredChatHistory = chatHistory
    ELSE /\ Len(filteredChatHistory) = Cardinality(Matching)
         /\ \A n \in 1..Len(filteredChatHistory) :
               \E k \in Matching :
                  /\ filteredChatHistory[n] = chatHistory[k]
                  /\ Cardinality({m \in Matching : m < k}) = n - 1

C11_Witness ==
    /\ searchKeyword = <<" ", "a">>
    /\ Len(chatHistory) = 2
    /\ Len(filteredChatHistory) = 1
    /\ filteredChatHistory[1] = chatHistory[2]

(***************************************************************************)
(* C12: Exchange ids are unique among all Exchanges created in a session;  *)
(* in particular no two Exchanges of chatHistory carry the same id.        *)
(***************************************************************************)
C12_IdsUnique ==
    \A i, j \in 1..Len(chatHistory) :
        i # j => chatHistory[i].id # chatHistory[j].id

(***************************************************************************)
(* C13: clearCurrentConversation, in whatever state it runs, leaves        *)
(* currentConversationId and selectedChatId null, currentConversation      *)
(* empty, prompt, result and displayedResult empty and error null, and     *)
(* does not change chatHistory.                                            *)
(***************************************************************************)
C13_ClearResetsAllButHistory ==
    [][last'.op = "clear" =>
          /\ currentConversationId' = NULL
          /\ selectedChatId' = NULL
          /\ currentConversation' = <<>>
          /\ prompt' = <<>>
          /\ result' = <<>>
          /\ displayedResult' = <<>>
          /\ error' = NoError
          /\ chatHistory' = chatHistory]_vars

C13_Witness ==
    /\ last.op = "clear"
    /\ last.active
    /\ chatHistory # <<>>
    /\ timers # <<>>

C15_SubmissionCompletes == loading ~> (~loading /\ ~isTyping)

C15_Witness ==
    /\ last.op = "record"
    /\ ~loading
    /\ ~isTyping
    /\ Len(chatHistory) = 2
    /\ selectedChatId # NULL

(***************************************************************************)
(* C16: a submission made while no conversation is active creates a new    *)
(* conversation: the Exchange it records carries a conversationId that no  *)
(* Exchange already in chatHistory has, and that conversation is the       *)
(* active one when the Exchange is recorded.                               *)
(***************************************************************************)
C16_FreshSubmissionOpensConversation ==
    (last.op = "record" /\ last.fresh) =>
        /\ \A k \in 1..Len(last.hist) :
              last.hist[k].conversationId # chatHistory[1].conversationId
        /\ chatHistory[1].conversationId # NULL
        /\ currentConversationId = chatHistory[1].conversationId

(***************************************************************************)
(* C17: deleteChatFromHistory(id) resets the active conversation           *)
(* (selectedChatId and currentConversationId null, currentConversation     *)
(* empty) exactly when id is in chatHistory and is selectedChatId; the     *)
(* delete of any other Exchange, one of the active conversation included,  *)
(* leaves the three as they are.                                           *)
(***************************************************************************)
C17_DeleteResetsOnlyForSelected ==
    [][last'.op = "delete" =>
          IF /\ \E k \in 1..Len(chatHistory) : chatHistory[k].id = last'.id
             /\ last'.id = selectedChatId
          THEN /\ selectedChatId' = NULL
               /\ currentConversationId' = NULL
               /\ currentConversation' = <<>>
          ELSE UNCHANGED <<selectedChatId, currentConversationId,
                           currentConversation>>]_vars

C17_Witness ==
    /\ last.op = "delete"
    /\ last.found
    /\ selectedChatId # NULL
    /\ selectedChatId # last.id
    /\ currentConversationId # NULL
    /\ \E k \in 1..Len(currentConversation) :
          /\ currentConversation[k].id = last.id
          /\ currentConversation[k].conversationId = currentConversationId

(***************************************************************************)
(* C18: in every reachable state chatHistory is newest first (timestamps   *)
(* never increase along it) and currentConversation is oldest first        *)
(* (timestamps never decrease along it); a newly recorded Exchange is      *)
(* appended last to currentConversation.                                   *)
(***************************************************************************)
C18_HistoryNewestFirst ==
    /\ \A i, j \in 1..Len(chatHistory) :
          i < j => chatHistory[i].timestamp >= chatHistory[j].timestamp
    /\ \A i, j \in 1..Len(currentConversation) :
          i < j => currentConversation[i].timestamp
                      <= currentConversation[j].timestamp
    /\ last.op = "record" =>
          currentConversation = Append(last.conv, chatHistory[1])

C18_Witness ==
    /\ last.op = "record"
    /\ Len(chatHistory) = 2
    /\ Len(currentConversation) = 2
    /\ chatHistory[1].timestamp > chatHistory[2].timestamp
    /\ currentConversation = <<chatHistory[2], chatHistory[1]>>

(***************************************************************************)
(* C19: in every reachable state the prompt of every Exchange in           *)
(* chatHistory is non-empty trimmed text: not empty, not whitespace only,  *)
(* and without leading or trailing whitespace.                             *)
(***************************************************************************)
C19_RecordedPromptIsTrimmed ==
    \A k \in 1..Len(chatHistory) :
        /\ Trim(chatHistory[k].prompt) # <<>>
        /\ ~IsSpace(chatHistory[k].prompt[1])
        /\ ~IsSpace(chatHistory[k].prompt[Len(chatHistory[k].prompt)])

(***************************************************************************)
(* C20: the Exchange recorded for a submission carries the conversationId  *)
(* that currentConversationId had when its gateway call was issued, and    *)
(* the view it is appended to is the view of that conversation, also when  *)
(* a select or a clear came while the call was in flight or the reveal was *)
(* running.                                                                *)
(***************************************************************************)
C20_RecordedUnderCalledConversation ==
    last.op = "record" =>
        /\ chatHistory[1].conversationId = last.req.cid
        /\ currentConversation[Len(currentConversation)] = chatHistory[1]
        /\ \A k \in 1..Len(currentConversation) :
              currentConversation[k].conversationId = last.req.cid

(***************************************************************************)
(* C21: in every reachable state of the multi-turn application every       *)
(* Exchange in chatHistory has a conversationId that is not null, also     *)
(* when clearCurrentConversation ran between the submission and the        *)
(* recording of its Exchange.                                              *)
(***************************************************************************)
C21_ConversationIdNotNull ==
    \A k \in 1..Len(chatHistory) : chatHistory[k].conversationId # NULL

(***************************************************************************)
(* C22: the conversation view never holds a deleted Exchange: in every     *)
(* reachable state every Exchange in currentConversation is in             *)
(* chatHistory.                                                            *)
(***************************************************************************)
C22_ViewHoldsNoDeletedExchange ==
    \A k \in 1..Len(currentConversation) :
        \E m \in 1..Len(chatHistory) : chatHistory[m] = currentConversation[k]

(***************************************************************************)
(* C23: the conversation view is homogeneous: in every reachable state all *)
(* Exchanges in currentConversation have one conversationId, and when the  *)
(* view is not empty that id is currentConversationId.                     *)
(***************************************************************************)
C23_ViewIsOneConversation ==
    \A k \in 1..Len(currentConversation) :
        currentConversation[k].conversationId = currentConversationId

(***************************************************************************)
(* C24: when a reveal finishes, displayedResult is the complete text the   *)
(* reveal was started with, and at every earlier point of the reveal       *)
(* displayedResult is a prefix of that text, under any interleaving of the *)
(* reveals started by callGeminiAPI and by selectChatFromHistory.          *)
(***************************************************************************)
IsPrefix(a, b) == Len(a) <= Len(b) /\ SubSeq(b, 1, Len(a)) = a

C24_RevealShowsItsText ==
    /\ \A k \in 1..Len(timers) : IsPrefix(displayedResult, timers[k].text)
    /\ last.op = "record" => displayedResult = last.response

(***************************************************************************)
(* C25: the partially revealed text is shown against the Exchange it       *)
(* belongs to: in every reachable state with isTyping true and a non-empty *)
(* currentConversation, displayedResult, which the template renders for    *)
(* the last message of currentConversation, is a prefix of that message's  *)
(* response.                                                               *)
(***************************************************************************)
C25_PartialTextOnItsExchange ==
    (isTyping /\ currentConversation # <<>>) =>
        IsPrefix(displayedResult,
                 currentConversation[Len(currentConversation)].response)

====
